---------------------------- MODULE Spec2Model ----------------------------
(***************************************************************************)
(* Fleet management core: NavGraph (shortest paths), TrafficManager (lane  *)
(* and vertex occupancy), Robot (movement state machine) and FleetManager  *)
(* (registry, task assignment, per-tick update loop).                      *)
(*                                                                         *)
(* Units.  The code works in floats; the model uses integers by fixing     *)
(* the units: time is counted in units of 100 s and distance in units of   *)
(* 5, so that speed 0.05 per second is 1 distance unit per time unit, the  *)
(* battery drain 0.01 per second is 1 (percent) per time unit and the      *)
(* charge 0.1 per second is 10 per time unit.  Battery is in percent.      *)
(* Vertices lie on one line (y = 0), so that np.linalg.norm(direction) is  *)
(* the absolute difference of the x coordinates and the normalized         *)
(* direction is its sign.                                                  *)
(*                                                                         *)
(* Python's None is modelled by None == -1 for vertex-valued fields.       *)
(***************************************************************************)
EXTENDS Integers, Sequences, FiniteSets, TLC

\* ------------------------------------------------------------------ bounds
NumVertices == 4
MaxDt == 2
\* Longest vertex sequence handed to set_destination directly.
MaxPathLen == 2

\* ------------------------------------------------------- program constants
Speed == 1
DrainRate == 1
\* (mutation) a charger that gives no more than the drain takes.
ChargeRateOfDrain == DrainRate
ChargeRate == 10
BatteryMax == 100
ChargeThreshold == 50

None == -1

\* Robot IDs as the user interface names them: R1, R2, ...
Names == <<"R1", "R2">>
IDs == {Names[i] : i \in 1..Len(Names)}
Vertices == 0..(NumVertices - 1)

\* Time deltas handed to update_robots (in time units of 100 s): 0, 50, 100.
DTs == {50 * k : k \in 0..MaxDt}

\* ------------------------------------------------------------- the graph
\* x coordinate of every vertex (the 'pos' node attribute): vertex 1 at 0,
\* vertex 0 at 50, vertex v >= 2 at 50 * v.
VertexPos(v) == IF v = 0 THEN 50 ELSE IF v = 1 THEN 0 ELSE 50 * v

\* NavGraph.chargers
Chargers == {0, 2}

\* The graphs (sets of directed lanes, the edges of NavGraph.G) of the model.
\* Merge: two lanes into vertex 0 and one out of it; nothing leaves vertex 3.
GraphMerge == {<<1, 0>>, <<2, 0>>, <<0, 3>>}
\* Cycle 0 -> 2 -> 1 -> 0 with the chord 2 -> 0; vertex 3 is isolated.
GraphCycle == {<<0, 2>>, <<2, 1>>, <<1, 0>>, <<2, 0>>}
\* Line 3 -> 2 -> 1 -> 0.
GraphLine == {<<3, 2>>, <<2, 1>>, <<1, 0>>}
\* Fork: two lanes leave vertex 2.
GraphFork == {<<2, 1>>, <<2, 0>>, <<1, 0>>}
\* Chain 1 -> 0 -> 2 -> 3: the vertices in the order of their positions.
GraphChain == {<<1, 0>>, <<0, 2>>, <<2, 3>>}

Abs(x) == IF x < 0 THEN -x ELSE x
\* (mutation) no floor: the second argument whatever the first.
SecondOf(a, b) == b
Max(a, b) == IF a >= b THEN a ELSE b
Min(a, b) == IF a <= b THEN a ELSE b

\* The 'distance' edge attribute computed by load_graph.
LaneDistance(lane) == Abs(VertexPos(lane[2]) - VertexPos(lane[1]))

\* ------------------------------------------------------- dictionaries
EmptyMap == [x \in {} |-> 0]
Put(f, k, v) == [x \in (DOMAIN f) \cup {k} |-> IF x = k THEN v ELSE f[x]]
Del(f, k) == [x \in (DOMAIN f) \ {k} |-> f[x]]

\* ---------------------------------------------------------------- NavGraph
\* All simple vertex sequences along directed lanes of graph g that extend
\* the sequence p to the vertex t.
RECURSIVE SimplePathsFrom(_, _, _)
SimplePathsFrom(g, p, t) ==
    IF p[Len(p)] = t
    THEN {p}
    ELSE UNION {SimplePathsFrom(g, Append(p, l[2]), t) :
                  l \in {m \in g : m[1] = p[Len(p)]
                                    /\ \A i \in 1..Len(p) : p[i] # m[2]}}

RECURSIVE PathLength(_)
PathLength(p) ==
    IF Len(p) <= 1 THEN 0
    ELSE LaneDistance(<<p[1], p[2]>>) + PathLength(Tail(p))

\* (mutation) a path search that returns any simple path, short or long.
AnySimplePaths(g, s, t) == SimplePathsFrom(g, <<s>>, t)

\* nx.shortest_path(G, source, target, weight='distance'): the paths of
\* minimal summed distance (networkx returns one of them); the empty set
\* stands for the exception NetworkXNoPath.
ShortestPaths(g, s, t) ==
    LET all == SimplePathsFrom(g, <<s>>, t)
    IN  {p \in all : \A q \in all : PathLength(p) <= PathLength(q)}

\* NavGraph.get_path: the set of values the call may return; {} models the
\* return value None.
GetPaths(g, start, end) == ShortestPaths(g, start, end)

\* ------------------------------------------------------------------- Robot
IDLE == "idle"
MOVING == "moving"
WAITING == "waiting"
CHARGING == "charging"
COMPLETED == "completed"
STATES == {IDLE, MOVING, WAITING, CHARGING, COMPLETED}

\* Robot.__init__ as called with robot_id, position and current_vertex.
NewRobot(v) ==
    [position |-> VertexPos(v), current_vertex |-> v, destination |-> None,
     path |-> <<>>, next_vertex |-> None, state |-> IDLE,
     battery |-> BatteryMax]

\* (mutation) set_destination that starts the robot only from IDLE and
\* otherwise keeps the state it finds.
SetDestinationFromIdle(r, destination, path) ==
    LET r1 == [r EXCEPT !.destination = destination, !.path = path]
    IN  IF Len(path) > 1
        THEN [r1 EXCEPT !.next_vertex = path[2],
                        !.state = IF r.state = IDLE THEN MOVING ELSE r.state]
        ELSE IF Len(path) = 1
        THEN [r1 EXCEPT !.state = COMPLETED]
        ELSE [r1 EXCEPT !.state = IDLE]

\* Robot.set_destination
SetDestination(r, destination, path) ==
    LET r1 == [r EXCEPT !.destination = destination, !.path = path]
    IN  IF Len(path) > 1
        THEN [r1 EXCEPT !.next_vertex = path[2], !.state = MOVING]
        ELSE IF Len(path) = 1
        THEN [r1 EXCEPT !.state = COMPLETED]
        ELSE [r1 EXCEPT !.state = IDLE]

\* (mutation) cancel_task that forgets to clear next_vertex.
RobotCancelTaskKeepingNext(r) ==
    [r EXCEPT !.destination = None, !.path = <<>>, !.state = IDLE]

\* Robot.cancel_task
RobotCancelTask(r) ==
    [r EXCEPT !.destination = None, !.path = <<>>, !.next_vertex = None,
              !.state = IDLE]

\* Robot.start_charging
StartCharging(r) == [r EXCEPT !.state = CHARGING]

\* Python truthiness of next_vertex in "if not self.next_vertex": None and
\* the integer 0 are both falsy.
Falsy(v) == v = None \/ v = 0

\* The dictionary returned by Robot.update: the reported state, and the
\* 'current_vertex' key (None when the key is absent).
Info(state, cv) == [state |-> state, current_vertex |-> cv]

\* "lane in current_lane_occupancy and current_lane_occupancy[lane] != self.id"
HeldByOther(lo, lane, id) == lane \in DOMAIN lo /\ lo[lane] # id

\* The part of Robot.update for a MOVING robot after next_vertex has been
\* settled: the lane check, the arrival and the movement (lines 119-154).
MoveStep(r, id, dt, lo) ==
    LET lane == <<r.current_vertex, r.next_vertex>>
        next_pos == VertexPos(r.next_vertex)
        direction == next_pos - r.position
        distance == Abs(direction)
    IN  IF HeldByOther(lo, lane, id)
        THEN <<[r EXCEPT !.state = WAITING], Info(WAITING, None)>>
        ELSE IF distance < Speed * dt
        THEN LET popped == Tail(r.path)
                 r1 == [r EXCEPT !.position = next_pos,
                                 !.current_vertex = r.next_vertex,
                                 !.path = popped]
                 r2 == IF popped # <<>>
                       THEN [r1 EXCEPT !.next_vertex = popped[1]]
                       ELSE [r1 EXCEPT !.next_vertex = None,
                                       !.state = COMPLETED]
             IN  <<r2, Info(r2.state, r2.current_vertex)>>
        ELSE IF distance > 0
        THEN LET sign == IF direction > 0 THEN 1 ELSE -1
             IN  <<[r EXCEPT !.position = r.position + sign * Speed * dt],
                   Info(r.state, None)>>
        ELSE <<r, Info(r.state, None)>>

\* Robot.update(dt, vertex_positions, current_lane_occupancy): the robot
\* afterwards and the returned dictionary.
RobotUpdate(r0, id, dt, lo) ==
    LET r == [r0 EXCEPT !.battery = Max(0, r0.battery - DrainRate * dt)]
    IN  IF r.state = IDLE \/ r.state = COMPLETED
        THEN <<r, Info(r.state, None)>>
        ELSE IF r.state = CHARGING
        THEN LET b == Min(BatteryMax, r.battery + ChargeRate * dt)
                 s == IF b >= BatteryMax THEN IDLE ELSE CHARGING
             IN  <<[r EXCEPT !.battery = b, !.state = s], Info(s, None)>>
        ELSE IF r.state = WAITING
        THEN LET lane == <<r.current_vertex, r.next_vertex>>
                 s == IF ~HeldByOther(lo, lane, id) THEN MOVING ELSE WAITING
             IN  <<[r EXCEPT !.state = s], Info(s, None)>>
        ELSE \* MOVING
             IF Falsy(r.next_vertex)
             THEN IF Len(r.path) > 0
                  THEN LET popped == Tail(r.path)
                       IN  IF popped # <<>>
                           THEN MoveStep([r EXCEPT !.path = popped,
                                                   !.next_vertex = popped[1]],
                                         id, dt, lo)
                           ELSE <<[r EXCEPT !.path = popped,
                                            !.state = COMPLETED],
                                  Info(COMPLETED, None)>>
                  ELSE <<[r EXCEPT !.state = COMPLETED],
                         Info(COMPLETED, None)>>
             ELSE MoveStep(r, id, dt, lo)

\* ---------------------------------------------------------- TrafficManager
\* (mutation) register_lane_usage without the check of line 53: the caller
\* always takes the lane.
RegisterLaneUsageUnchecked(lo, vo, robot_id, start_vertex, end_vertex) ==
    [ret |-> TRUE, lo |-> Put(lo, <<start_vertex, end_vertex>>, robot_id),
     vo |-> Put(vo, start_vertex, robot_id)]

\* (mutation) register_lane_usage refusing every lane that is in the
\* dictionary, the caller's own included.
RegisterLaneUsageOnce(lo, vo, robot_id, start_vertex, end_vertex) ==
    IF <<start_vertex, end_vertex>> \in DOMAIN lo
    THEN [ret |-> FALSE, lo |-> lo, vo |-> vo]
    ELSE [ret |-> TRUE, lo |-> Put(lo, <<start_vertex, end_vertex>>, robot_id),
          vo |-> Put(vo, start_vertex, robot_id)]

\* TrafficManager.register_lane_usage on the dictionaries lo (lanes) and vo
\* (vertices): the return value and the dictionaries afterwards.
RegisterLaneUsage(lo, vo, robot_id, start_vertex, end_vertex) ==
    LET lane == <<start_vertex, end_vertex>>
    IN  IF lane \in DOMAIN lo /\ lo[lane] # robot_id
        THEN [ret |-> FALSE, lo |-> lo, vo |-> vo]
        ELSE [ret |-> TRUE, lo |-> Put(lo, lane, robot_id),
              vo |-> Put(vo, start_vertex, robot_id)]

\* (mutation) release_lane without the check of line 84: the vertex entry
\* goes with the lane, whoever holds it.
ReleaseLaneUsageVertexToo(lo, vo, robot_id, start_vertex, end_vertex) ==
    LET lane == <<start_vertex, end_vertex>>
    IN  IF lane \in DOMAIN lo /\ lo[lane] = robot_id
        THEN [ret |-> TRUE, lo |-> Del(lo, lane), vo |-> Del(vo, start_vertex)]
        ELSE [ret |-> FALSE, lo |-> lo, vo |-> vo]

\* TrafficManager.release_lane
ReleaseLaneUsage(lo, vo, robot_id, start_vertex, end_vertex) ==
    LET lane == <<start_vertex, end_vertex>>
    IN  IF lane \in DOMAIN lo /\ lo[lane] = robot_id
        THEN [ret |-> TRUE, lo |-> Del(lo, lane),
              vo |-> IF start_vertex \in DOMAIN vo /\ vo[start_vertex] = robot_id
                     THEN Del(vo, start_vertex) ELSE vo]
        ELSE [ret |-> FALSE, lo |-> lo, vo |-> vo]

\* TrafficManager.is_lane_free (robot_id = "" stands for the default None;
\* every robot ID is truthy)
IsLaneFree(lo, start_vertex, end_vertex, robot_id) ==
    LET lane == <<start_vertex, end_vertex>>
    IN  IF lane \notin DOMAIN lo THEN TRUE
        ELSE IF robot_id # "" /\ lo[lane] = robot_id THEN TRUE
        ELSE FALSE

\* TrafficManager.is_vertex_free
IsVertexFree(vo, vertex_id, robot_id) ==
    IF vertex_id \notin DOMAIN vo THEN TRUE
    ELSE IF robot_id # "" /\ vo[vertex_id] = robot_id THEN TRUE
    ELSE FALSE


\* ------------------------------------------------------------------- state
VARIABLES
    lanes,             \* the lanes of NavGraph.G (fixed after load_graph)
    robots,            \* FleetManager.robots: robot ID -> Robot
    order,             \* iteration (insertion) order of FleetManager.robots
    tasks,             \* FleetManager.tasks: robot ID -> task record
    lane_occupancy,    \* TrafficManager.lane_occupancy: (start, end) -> ID
    vertex_occupancy,  \* TrafficManager.vertex_occupancy: vertex -> ID
    snapshot,          \* a dictionary obtained from get_lane_occupancy
    last,              \* the last call: operation, arguments, return value
    travel,            \* history: robot ID -> the lane along which the robot
                       \* has moved since it last stood on a vertex
    plan               \* history: robot ID -> the path assign_task gave the
                       \* robot for the journey it is on

vars == <<lanes, robots, order, tasks, lane_occupancy, vertex_occupancy,
          snapshot, last, travel, plan>>

fleet == <<robots, order, tasks, travel, plan>>
traffic == <<lane_occupancy, vertex_occupancy>>

NoLane == <<>>
NoUpdates == EmptyMap
NoSnapshot == [kind |-> "none"]

\* The record of a call: ret is the Boolean a call returned (TRUE for a call
\* that returns nothing), updates the dictionary update_robots returned.
Call(op, args, ret) ==
    [op |-> op, args |-> args, ret |-> ret, updates |-> NoUpdates]

\* A specification that does not need the record of the last call starts
\* with Unrecorded, and last then stays so.
Unrecorded == Call("unrecorded", <<>>, TRUE)
Record(call) == IF last.op = "unrecorded" THEN last ELSE call

\* The lane a robot is logically on: (current_vertex, next_vertex).
LaneOf(r) == <<r.current_vertex, r.next_vertex>>

\* History bookkeeping after an operation that does not move robots: a robot
\* keeps its travelled lane only while it is still on that lane.
TravelKeep(rb, tr) ==
    [id \in DOMAIN rb |->
        IF id \in DOMAIN tr /\ tr[id] = LaneOf(rb[id]) THEN tr[id] ELSE NoLane]

\* History bookkeeping after a tick: a robot whose position changed while its
\* current vertex stayed has moved along its lane.
TravelTick(old, rb, tr) ==
    [id \in DOMAIN rb |->
        IF rb[id].position # old[id].position
           /\ rb[id].current_vertex = old[id].current_vertex
        THEN LaneOf(rb[id])
        ELSE IF tr[id] = LaneOf(rb[id]) THEN tr[id] ELSE NoLane]

\* History bookkeeping after a tick: the planned path is remembered while the
\* robot is under way (MOVING or WAITING).
PlanTick(rb, pl) ==
    [id \in DOMAIN rb |->
        IF rb[id].state \in {MOVING, WAITING} THEN pl[id] ELSE <<>>]

\* FleetManager.__init__ and TrafficManager.__init__ on a graph of the set G;
\* first is the initial record of the last call.
InitOn(G, first) ==
    /\ lanes \in G
    /\ robots = EmptyMap
    /\ order = <<>>
    /\ tasks = EmptyMap
    /\ lane_occupancy = EmptyMap
    /\ vertex_occupancy = EmptyMap
    /\ snapshot = NoSnapshot
    /\ last = first
    /\ travel = EmptyMap
    /\ plan = EmptyMap

\* ------------------------------------------------------------ FleetManager
RemoveFromSeq(seq, x) == SelectSeq(seq, LAMBDA y : y # x)

\* FleetManager.add_robot with a robot freshly constructed at vertex v.  An
\* existing key keeps its place in the dictionary's iteration order.  The
\* task record of a replaced robot stays, no longer sharing its path list
\* with the robot.
AddRobotResult(rb, ord, tk, id, v) ==
    [robots |-> Put(rb, id, NewRobot(v)),
     order |-> IF id \in DOMAIN rb THEN ord ELSE Append(ord, id),
     tasks |-> IF id \in DOMAIN tk
               THEN [tk EXCEPT ![id].shared = FALSE] ELSE tk]

AddRobot(id, v) ==
    LET res == AddRobotResult(robots, order, tasks, id, v)
    IN  /\ robots' = res.robots
        /\ order' = res.order
        /\ tasks' = res.tasks
        /\ last' = Record(Call("add", <<id, v>>, TRUE))
        /\ travel' = TravelKeep(robots', travel)
        /\ plan' = Put(plan, id, <<>>)
        /\ UNCHANGED <<lanes, traffic, snapshot>>

\* The spawn of the user interface (_handle_vertex_click): the robot is named
\* after the size of the registry and is spawned only on a vertex on which
\* no registered robot stands.
SpawnRobot(v) ==
    /\ Len(order) < Len(Names)
    /\ \A o \in DOMAIN robots : robots[o].current_vertex # v
    /\ AddRobot(Names[Len(order) + 1], v)

\* (mutation) remove_robot that leaves the robot's task record behind.
RemoveRobotResultKeepingTask(rb, ord, tk, robot_id) ==
    IF robot_id \in DOMAIN rb
    THEN [ret |-> TRUE, robots |-> Del(rb, robot_id),
          order |-> RemoveFromSeq(ord, robot_id), tasks |-> tk]
    ELSE [ret |-> FALSE, robots |-> rb, order |-> ord, tasks |-> tk]

\* FleetManager.remove_robot
RemoveRobotResult(rb, ord, tk, robot_id) ==
    IF robot_id \in DOMAIN rb
    THEN [ret |-> TRUE, robots |-> Del(rb, robot_id),
          order |-> RemoveFromSeq(ord, robot_id), tasks |-> Del(tk, robot_id)]
    ELSE [ret |-> FALSE, robots |-> rb, order |-> ord, tasks |-> tk]

\* (mutation) remove_robot that also gives up what the robot holds in the
\* TrafficManager.
RemoveRobotReleasing(id) ==
    LET res == RemoveRobotResult(robots, order, tasks, id)
    IN  /\ robots' = res.robots
        /\ order' = res.order
        /\ tasks' = res.tasks
        /\ last' = Record(Call("remove", <<id>>, res.ret))
        /\ travel' = TravelKeep(robots', travel)
        /\ plan' = Del(plan, id)
        /\ lane_occupancy' =
               [l \in {k \in DOMAIN lane_occupancy : lane_occupancy[k] # id}
                   |-> lane_occupancy[l]]
        /\ vertex_occupancy' =
               [v \in {k \in DOMAIN vertex_occupancy :
                          vertex_occupancy[k] # id} |-> vertex_occupancy[v]]
        /\ UNCHANGED <<lanes, snapshot>>

RemoveRobot(id) ==
    LET res == RemoveRobotResult(robots, order, tasks, id)
    IN  /\ robots' = res.robots
        /\ order' = res.order
        /\ tasks' = res.tasks
        /\ last' = Record(Call("remove", <<id>>, res.ret))
        /\ travel' = TravelKeep(robots', travel)
        /\ plan' = Del(plan, id)
        /\ UNCHANGED <<lanes, traffic, snapshot>>

\* (mutation) assign_task that drops the robot's task when no path exists.
AssignTaskResultDropping(rb, tk, robot_id, destination_vertex, paths, p) ==
    IF robot_id \notin DOMAIN rb
    THEN [ret |-> FALSE, robots |-> rb, tasks |-> tk]
    ELSE IF rb[robot_id].current_vertex = destination_vertex
    THEN [ret |-> TRUE, robots |-> rb, tasks |-> tk]
    ELSE IF paths = {}
    THEN [ret |-> FALSE,
          robots |-> [rb EXCEPT ![robot_id] = RobotCancelTask(rb[robot_id])],
          tasks |-> Del(tk, robot_id)]
    ELSE [ret |-> TRUE,
          robots |-> [rb EXCEPT ![robot_id] =
                         SetDestination(rb[robot_id], destination_vertex, p)],
          tasks |-> Put(tk, robot_id, [destination |-> destination_vertex,
                                       path |-> p, shared |-> TRUE])]

\* FleetManager.assign_task: the return value and the registry and task
\* records afterwards; paths is what get_path may return and p the path it
\* returned (p is only read when a path exists).
AssignTaskResult(rb, tk, robot_id, destination_vertex, paths, p) ==
    IF robot_id \notin DOMAIN rb
    THEN [ret |-> FALSE, robots |-> rb, tasks |-> tk]
    ELSE IF rb[robot_id].current_vertex = destination_vertex
    THEN [ret |-> TRUE, robots |-> rb, tasks |-> tk]
    ELSE IF paths = {}
    THEN [ret |-> FALSE, robots |-> rb, tasks |-> tk]
    ELSE [ret |-> TRUE,
          robots |-> [rb EXCEPT ![robot_id] =
                         SetDestination(rb[robot_id], destination_vertex, p)],
          tasks |-> Put(tk, robot_id, [destination |-> destination_vertex,
                                       path |-> p, shared |-> TRUE])]

AssignTask(id, d) ==
    LET paths == IF id \in DOMAIN robots
                 THEN GetPaths(lanes, robots[id].current_vertex, d) ELSE {}
    IN  /\ \E p \in (IF paths = {} THEN {<<>>} ELSE paths) :
            LET res == AssignTaskResult(robots, tasks, id, d, paths, p)
            IN  /\ robots' = res.robots
                /\ tasks' = res.tasks
                /\ last' = Record(Call("assign", <<id, d>>, res.ret))
                /\ plan' = IF paths # {} /\ robots[id].current_vertex # d
                           THEN Put(plan, id, p) ELSE plan
        /\ travel' = TravelKeep(robots', travel)
        /\ UNCHANGED <<lanes, order, traffic, snapshot>>

\* FleetManager.cancel_task
CancelTaskResult(rb, tk, robot_id) ==
    IF robot_id \notin DOMAIN rb
    THEN [ret |-> FALSE, robots |-> rb, tasks |-> tk]
    ELSE [ret |-> TRUE,
          robots |-> [rb EXCEPT ![robot_id] = RobotCancelTask(rb[robot_id])],
          tasks |-> Del(tk, robot_id)]

CancelTask(id) ==
    LET res == CancelTaskResult(robots, tasks, id)
    IN  /\ robots' = res.robots
        /\ tasks' = res.tasks
        /\ last' = Record(Call("cancel", <<id>>, res.ret))
        /\ travel' = TravelKeep(robots', travel)
        /\ plan' = IF id \in DOMAIN plan THEN Put(plan, id, <<>>) ELSE plan
        /\ UNCHANGED <<lanes, order, traffic, snapshot>>

\* (mutation) update_robots hands every robot a copy taken when the tick starts.
OccupancySeenAtStart(start, live) == start

\* The dictionary Robot.update reads in update_robots: get_lane_occupancy
\* returns the TrafficManager's own dictionary, so a robot reads the
\* occupancy as it is when its turn comes (live), not as it was when the
\* tick started (start).
OccupancySeen(start, live) == live

\* One iteration of the loop of update_robots, for robot id; st holds the
\* robots, tasks, occupancy and updates so far, lo0 the lane occupancy at
\* the start of the tick.
UpdateOne(st, id, dt, lo0) ==
    LET pre == st.robots[id]
        res == RobotUpdate(pre, id, dt, OccupancySeen(lo0, st.lo))
        r1 == res[1]
        info == res[2]
        arrived == info.current_vertex # None
                   /\ info.current_vertex # pre.current_vertex
        r2 == IF arrived /\ r1.destination = info.current_vertex
                 /\ info.current_vertex \in Chargers
                 /\ r1.battery < ChargeThreshold
              THEN StartCharging(r1) ELSE r1
        reg == IF r2.current_vertex # None /\ r2.next_vertex # None
               THEN RegisterLaneUsage(st.lo, st.vo, id,
                                      r2.current_vertex, r2.next_vertex)
               ELSE [ret |-> TRUE, lo |-> st.lo, vo |-> st.vo]
    IN  [robots |-> [st.robots EXCEPT ![id] = r2],
         tasks |-> IF id \in DOMAIN st.tasks /\ st.tasks[id].shared
                   THEN [st.tasks EXCEPT ![id].path = r2.path]
                   ELSE st.tasks,
         lo |-> reg.lo, vo |-> reg.vo,
         updates |-> Put(st.updates, id, info)]

RECURSIVE UpdateFrom(_, _, _, _, _)
UpdateFrom(i, ord, st, dt, lo0) ==
    IF i > Len(ord) THEN st
    ELSE \* the loop goes on from the one state the iteration for ord[i] left
         CHOOSE end \in {UpdateFrom(i + 1, ord, after, dt, lo0) :
                            after \in {UpdateOne(st, ord[i], dt, lo0)}} : TRUE

\* FleetManager.update_robots(dt, traffic_manager): the robots, tasks and
\* occupancy afterwards and the returned updates.
UpdateRobots(rb, ord, tk, lo, vo, dt) ==
    UpdateFrom(1, ord, [robots |-> rb, tasks |-> tk, lo |-> lo, vo |-> vo,
                        updates |-> NoUpdates], dt, lo)

Tick(dt) ==
    LET res == UpdateRobots(robots, order, tasks, lane_occupancy,
                            vertex_occupancy, dt)
    IN  /\ robots' = res.robots
        /\ tasks' = res.tasks
        /\ lane_occupancy' = res.lo
        /\ vertex_occupancy' = res.vo
        /\ last' = Record([Call("tick", <<dt>>, TRUE) EXCEPT
                               !.updates = res.updates])
        /\ travel' = TravelTick(robots, robots', travel)
        /\ plan' = PlanTick(robots', plan)
        /\ UNCHANGED <<lanes, order, snapshot>>

\* ----------------------------------------------- TrafficManager operations
RegisterLane(id, f, t) ==
    LET res == RegisterLaneUsage(lane_occupancy, vertex_occupancy, id, f, t)
    IN  /\ lane_occupancy' = res.lo
        /\ vertex_occupancy' = res.vo
        /\ last' = Record(Call("register", <<id, f, t>>, res.ret))
        /\ UNCHANGED <<lanes, fleet, snapshot>>

ReleaseLane(id, f, t) ==
    LET res == ReleaseLaneUsage(lane_occupancy, vertex_occupancy, id, f, t)
    IN  /\ lane_occupancy' = res.lo
        /\ vertex_occupancy' = res.vo
        /\ last' = Record(Call("release", <<id, f, t>>, res.ret))
        /\ UNCHANGED <<lanes, fleet, snapshot>>

\* The dictionaries a holder of the result of get_lane_occupancy and
\* get_vertex_occupancy reads through it.
SnapshotLanes ==
    IF snapshot.kind = "live" THEN lane_occupancy
    ELSE IF snapshot.kind = "detached" THEN snapshot.lo ELSE EmptyMap

SnapshotVertices ==
    IF snapshot.kind = "live" THEN vertex_occupancy
    ELSE IF snapshot.kind = "detached" THEN snapshot.vo ELSE EmptyMap

\* What get_lane_occupancy and get_vertex_occupancy hand out: the
\* TrafficManager's own dictionaries ("live"), not copies of them.
OccupancyHandedOut(lo, vo) == [kind |-> "live"]

\* TrafficManager.get_lane_occupancy and get_vertex_occupancy, called by a
\* client that keeps the results.
TakeSnapshot ==
    /\ snapshot' = OccupancyHandedOut(lane_occupancy, vertex_occupancy)
    /\ last' = Record(Call("snapshot", <<>>, TRUE))
    /\ UNCHANGED <<lanes, fleet, traffic>>

\* The holder of the snapshot writes an entry into its lane dictionary.
WriteSnapshot(id, f, t) ==
    /\ snapshot.kind # "none"
    /\ IF snapshot.kind = "live"
       THEN /\ lane_occupancy' = Put(lane_occupancy, <<f, t>>, id)
            /\ UNCHANGED snapshot
       ELSE /\ snapshot' = [snapshot EXCEPT !.lo = Put(@, <<f, t>>, id)]
            /\ UNCHANGED lane_occupancy
    /\ last' = Record(Call("write", <<id, f, t>>, TRUE))
    /\ UNCHANGED <<lanes, fleet, vertex_occupancy>>

\* (mutation) reset that clears the lanes and forgets the vertices.
ResetLanesOnly ==
    /\ lane_occupancy' = EmptyMap
    /\ snapshot' = IF snapshot.kind = "live"
                   THEN [kind |-> "detached", lo |-> lane_occupancy,
                         vo |-> vertex_occupancy]
                   ELSE snapshot
    /\ last' = Record(Call("reset", <<>>, TRUE))
    /\ UNCHANGED <<lanes, fleet, vertex_occupancy>>

\* TrafficManager.reset: binds two new empty dictionaries; dictionaries
\* handed out before keep their contents.
Reset ==
    /\ lane_occupancy' = EmptyMap
    /\ vertex_occupancy' = EmptyMap
    /\ snapshot' = IF snapshot.kind = "live"
                   THEN [kind |-> "detached", lo |-> lane_occupancy,
                         vo |-> vertex_occupancy]
                   ELSE snapshot
    /\ last' = Record(Call("reset", <<>>, TRUE))
    /\ UNCHANGED <<lanes, fleet>>

\* ---------------------------------------------------------- specifications
\* The fleet of two robots: robots are spawned as the user interface spawns
\* them (named after the size of the registry, on a vertex no robot stands
\* on), tasks are assigned and cancelled through FleetManager, and time
\* passes by update_robots.  The TrafficManager is driven by the ticks alone.
Init == InitOn({GraphMerge}, Unrecorded)

Next ==
    \/ \E v \in Vertices : SpawnRobot(v)
    \/ \E id \in IDs, d \in Vertices : AssignTask(id, d)
    \/ \E id \in IDs : CancelTask(id)
    \/ \E dt \in DTs : Tick(dt)

Spec == Init /\ [][Next]_vars

\* One robot on a cycle or a line, every operation of FleetManager, the last
\* call recorded.
InitSolo == InitOn({GraphCycle, GraphLine}, Call("init", <<>>, TRUE))

NextSolo ==
    \/ \E v \in Vertices : AddRobot(Names[1], v)
    \/ RemoveRobot(Names[1])
    \/ \E d \in Vertices : AssignTask(Names[1], d)
    \/ CancelTask(Names[1])
    \/ \E dt \in DTs : Tick(dt)

SpecSolo == InitSolo /\ [][NextSolo]_vars

\* The TrafficManager alone, driven through its own operations.
InitTraffic == InitOn({GraphFork}, Call("init", <<>>, TRUE))

NextTraffic ==
    \/ \E id \in IDs, l \in lanes : RegisterLane(id, l[1], l[2])
    \/ \E id \in IDs, l \in lanes : ReleaseLane(id, l[1], l[2])
    \/ Reset
    \/ TakeSnapshot
    \/ \E id \in IDs, l \in lanes : WriteSnapshot(id, l[1], l[2])

SpecTraffic == InitTraffic /\ [][NextTraffic]_vars

\* One robot, a single task, and ticks that let time pass: the robot is
\* spawned once, is given one destination, and from then on the main loop of
\* the user interface calls update_robots on every frame, which the weak
\* fairness of the ticks expresses.
InitProgress == InitOn({GraphMerge, GraphCycle, GraphLine}, Unrecorded)

SpawnOnce(v) == robots = EmptyMap /\ AddRobot(Names[1], v)

AssignOnce(d) ==
    /\ Names[1] \in DOMAIN robots
    /\ robots[Names[1]].state = IDLE
    /\ tasks = EmptyMap
    /\ AssignTask(Names[1], d)

TimePasses == \E dt \in DTs \ {0} : Tick(dt)

NextProgress ==
    \/ \E v \in Vertices : SpawnOnce(v)
    \/ \E d \in Vertices : AssignOnce(d)
    \/ TimePasses

SpecProgress == InitProgress /\ [][NextProgress]_vars /\ WF_vars(TimePasses)

\* One robot and one task as in SpecProgress, on the line, with ticks short
\* enough for a journey and a charge to take many of them.
ShortDTs == {5, 25}

InitCharge == InitOn({GraphLine}, Unrecorded)

ShortTick == \E dt \in ShortDTs : Tick(dt)

NextCharge ==
    \/ \E v \in Vertices : SpawnOnce(v)
    \/ \E d \in Vertices : AssignOnce(d)
    \/ ShortTick

SpecCharge == InitCharge /\ [][NextCharge]_vars /\ WF_vars(ShortTick)

\* NavGraph.get_path called on the graphs made of any of these lanes.  The
\* lanes 1->2 and 1->0->2 are equally long, as are 1->3 and 1->2->3; the
\* way 0->1->2 is longer than the lane 0->2.
PathLanes ==
    {<<0, 1>>, <<1, 0>>, <<1, 2>>, <<0, 2>>, <<2, 3>>, <<1, 3>>, <<3, 0>>}

InitPath == InitOn(SUBSET PathLanes, Call("init", <<>>, TRUE))

\* get_path(start, end): ret tells whether a path was returned (not None),
\* updates holds the path.
GetPath(start, end) ==
    LET paths == GetPaths(lanes, start, end)
    IN  /\ \E p \in (IF paths = {} THEN {<<>>} ELSE paths) :
               last' = [Call("get_path", <<start, end>>, paths # {})
                            EXCEPT !.updates = p]
        /\ UNCHANGED <<lanes, fleet, traffic, snapshot>>

NextPath == \E s \in Vertices, t \in Vertices : GetPath(s, t)

SpecPath == InitPath /\ [][NextPath]_vars

\* Two robots, one task each, and ticks that let time pass: robots are
\* spawned as the user interface spawns them, an idle robot without a task
\* is given a destination, the robot for whose lane another robot waits may
\* have its task cancelled or be removed, and the main loop calls
\* update_robots on every frame.
InitRelease == InitOn({GraphMerge}, Unrecorded)

AssignIdle(id, d) ==
    /\ id \in DOMAIN robots
    /\ robots[id].state = IDLE
    /\ id \notin DOMAIN tasks
    /\ AssignTask(id, d)

\* Robot b is WAITING and the lane it waits for is registered under a.
WaitsFor(b, a) ==
    /\ a # b
    /\ b \in DOMAIN robots
    /\ robots[b].state = WAITING
    /\ LaneOf(robots[b]) \in DOMAIN lane_occupancy
    /\ lane_occupancy[LaneOf(robots[b])] = a

CancelBlocker(a) == (\E b \in IDs : WaitsFor(b, a)) /\ CancelTask(a)

RemoveBlocker(a) == (\E b \in IDs : WaitsFor(b, a)) /\ RemoveRobot(a)

NextRelease ==
    \/ \E v \in Vertices : SpawnRobot(v)
    \/ \E id \in IDs, d \in Vertices : AssignIdle(id, d)
    \/ \E id \in IDs : CancelBlocker(id)
    \/ \E id \in IDs : RemoveBlocker(id)
    \/ TimePasses

SpecRelease == InitRelease /\ [][NextRelease]_vars /\ WF_vars(TimePasses)

\* Two robots on the chain: robots are spawned as the user interface spawns
\* them, a robot that is idle or has completed its task is given a
\* destination, and time passes.
InitContend == InitOn({GraphChain}, Unrecorded)

AssignDone(id, d) ==
    /\ id \in DOMAIN robots
    /\ robots[id].state \in {IDLE, COMPLETED}
    /\ AssignTask(id, d)

NextContend ==
    \/ \E v \in Vertices : SpawnRobot(v)
    \/ \E id \in IDs, d \in Vertices : AssignDone(id, d)
    \/ TimePasses

SpecContend == InitContend /\ [][NextContend]_vars

\* One robot on the chain, the last call recorded: the robot is added to an
\* empty registry, is given tasks, has them cancelled, is removed, and time
\* passes.
InitFrame == InitOn({GraphChain}, Call("init", <<>>, TRUE))

NextFrame ==
    \/ \E v \in Vertices : SpawnOnce(v)
    \/ RemoveRobot(Names[1])
    \/ \E d \in Vertices : AssignTask(Names[1], d)
    \/ CancelTask(Names[1])
    \/ TimePasses

SpecFrame == InitFrame /\ [][NextFrame]_vars

\* ------------------------------------------------------------------ claims
Registered == DOMAIN robots

\* C1: no two distinct registered agents ever have the same current vertex
\* (agents are spawned on vertices on which no agent stands).
C1_VertexExclusion ==
    \A a \in Registered, b \in Registered :
        a # b => robots[a].current_vertex # robots[b].current_vertex

\* An agent has advanced along the lane it is logically on.
Travelling(id) == travel[id] # NoLane /\ travel[id] = LaneOf(robots[id])

\* C2: no two distinct registered agents are travelling on the same directed
\* lane (same current vertex, same next vertex, both having advanced along
\* it) at the same time.
C2_LaneExclusion ==
    \A a \in Registered, b \in Registered :
        a # b /\ Travelling(a) /\ Travelling(b) => travel[a] # travel[b]

\* C2 witness: one agent has advanced along a lane that another agent, held
\* back in state WAITING, is logically on as well.
C2_Witness ==
    \E a \in Registered, b \in Registered :
        /\ a # b
        /\ Travelling(a)
        /\ LaneOf(robots[b]) = LaneOf(robots[a])
        /\ robots[b].state = WAITING

\* The arguments of the last call.
LastID == last.args[1]
LastFrom == last.args[2]
LastLane == <<last.args[2], last.args[3]>>

\* Dictionaries f and g agree everywhere but possibly at key k.
SameExcept(f, g, k) ==
    /\ DOMAIN f \ {k} = DOMAIN g \ {k}
    /\ \A x \in DOMAIN f \ {k} : f[x] = g[x]

Holds(f, k, id) == k \in DOMAIN f /\ f[k] = id

\* C3: registerLane(B, from, to) on a lane held by a different agent returns
\* false and leaves the lane map and the vertex map as they were; on a lane
\* nobody holds it returns true, and afterwards the lane and the vertex
\* 'from' are held by B.
C3_RegisterLane ==
    [][last'.op = "register" =>
         LET id == last'.args[1]
             from == last'.args[2]
             lane == <<last'.args[2], last'.args[3]>>
         IN  /\ (lane \in DOMAIN lane_occupancy /\ lane_occupancy[lane] # id)
                    => /\ last'.ret = FALSE
                       /\ UNCHANGED traffic
             /\ lane \notin DOMAIN lane_occupancy
                    => /\ last'.ret = TRUE
                       /\ Holds(lane_occupancy', lane, id)
                       /\ Holds(vertex_occupancy', from, id)]_vars

\* C3 witness: a registerLane call has just been refused, the lane being held
\* by a different agent.
C3_Witness ==
    /\ last.op = "register"
    /\ last.ret = FALSE
    /\ LastLane \in DOMAIN lane_occupancy
    /\ lane_occupancy[LastLane] # LastID

\* C4: registerLane is idempotent for the same holder: in every state, for
\* every agent and lane, a second registerLane with the same arguments leaves
\* both maps as the first call left them and returns what the first returned.
C4_RegisterIdempotent ==
    \A id \in IDs, f \in Vertices, t \in Vertices :
        LET once == RegisterLaneUsage(lane_occupancy, vertex_occupancy,
                                      id, f, t)
            twice == RegisterLaneUsage(once.lo, once.vo, id, f, t)
        IN  /\ twice.lo = once.lo
            /\ twice.vo = once.vo
            /\ twice.ret = once.ret

\* C4 witness: a registerLane call has just succeeded while the other agent
\* holds another lane, so that the second call meets a populated table.
C4_Witness ==
    /\ last.op = "register"
    /\ last.ret = TRUE
    /\ Holds(lane_occupancy, LastLane, LastID)
    /\ \E l \in DOMAIN lane_occupancy : lane_occupancy[l] # LastID

\* C5: whenever agent A already holds lane (from, to), also after other
\* agents have registered other lanes leaving 'from', registerLane(A, from,
\* to) returns true and changes neither the lane map nor the vertex map.
C5_ReRegisterNoOp ==
    [][(/\ last'.op = "register"
        /\ Holds(lane_occupancy, <<last'.args[2], last'.args[3]>>,
                 last'.args[1]))
           => last'.ret = TRUE /\ UNCHANGED traffic]_vars

\* C6: releaseLane(A, from, to) on a lane held by A returns true, removes the
\* lane entry, and removes the vertex entry of 'from' only if A holds it; on
\* any other lane it returns false and changes neither map.  No other lane or
\* vertex entry changes.
C6_ReleaseLane ==
    [][last'.op = "release" =>
         LET id == last'.args[1]
             from == last'.args[2]
             lane == <<last'.args[2], last'.args[3]>>
         IN  IF Holds(lane_occupancy, lane, id)
             THEN /\ last'.ret = TRUE
                  /\ lane \notin DOMAIN lane_occupancy'
                  /\ SameExcept(lane_occupancy, lane_occupancy', lane)
                  /\ SameExcept(vertex_occupancy, vertex_occupancy', from)
                  /\ IF Holds(vertex_occupancy, from, id)
                     THEN from \notin DOMAIN vertex_occupancy'
                     ELSE vertex_occupancy' = vertex_occupancy
             ELSE /\ last'.ret = FALSE
                  /\ UNCHANGED traffic]_vars

\* C6 witness: an agent has just released its lane while the vertex 'from'
\* was held by the other agent, whose entry is still there.
C6_Witness ==
    /\ last.op = "release"
    /\ last.ret = TRUE
    /\ LastLane \notin DOMAIN lane_occupancy
    /\ LastFrom \in DOMAIN vertex_occupancy
    /\ vertex_occupancy[LastFrom] # LastID

\* C7: the occupancy snapshot does not alias the manager's state: once a
\* snapshot is taken, registerLane and releaseLane do not change what the
\* snapshot holds, and a write to the snapshot does not change the manager's
\* maps.
C7_SnapshotNoAlias ==
    [][/\ (snapshot.kind # "none" /\ last'.op \in {"register", "release"})
              => /\ SnapshotLanes' = SnapshotLanes
                 /\ SnapshotVertices' = SnapshotVertices
       /\ last'.op = "write" => UNCHANGED traffic]_vars

\* The vertices reachable from s in at most n steps along the lanes of g.
RECURSIVE ReachableWithin(_, _, _)
ReachableWithin(g, s, n) ==
    IF n = 0 THEN {s}
    ELSE LET R == ReachableWithin(g, s, n - 1)
         IN  R \cup {l[2] : l \in {k \in g : k[1] \in R}}

Reachable(g, s, t) == t \in ReachableWithin(g, s, NumVertices)

\* p is a path of g from s to t.
IsPathFromTo(g, p, s, t) ==
    /\ Len(p) >= 1
    /\ p[1] = s
    /\ p[Len(p)] = t
    /\ \A i \in 1..(Len(p) - 1) : <<p[i], p[i + 1]>> \in g

\* C8: assignTask changes nothing in its three outcomes that assign nothing:
\* it returns false for an unknown agent, true for an agent already on the
\* destination, false when no path leads from the agent's current vertex to
\* the destination; the agents (state, destination, path, next vertex), the
\* task records and the registry are as before the call.
C8_AssignTaskNoOp ==
    [][last'.op = "assign" =>
         LET id == last'.args[1]
             d == last'.args[2]
             known == id \in DOMAIN robots
         IN  /\ ~known => last'.ret = FALSE /\ UNCHANGED <<robots, order, tasks>>
             /\ (known /\ robots[id].current_vertex = d)
                    => last'.ret = TRUE /\ UNCHANGED <<robots, order, tasks>>
             /\ (/\ known
                 /\ robots[id].current_vertex # d
                 /\ ~Reachable(lanes, robots[id].current_vertex, d))
                    => last'.ret = FALSE /\ UNCHANGED <<robots, order, tasks>>]_vars

\* C8 witness: assignTask has just returned false for a registered agent that
\* is under way with a task, its destination being unreachable from where
\* the agent is.
C8_Witness ==
    /\ last.op = "assign"
    /\ last.ret = FALSE
    /\ LastID \in DOMAIN robots
    /\ LastID \in DOMAIN tasks
    /\ robots[LastID].state = MOVING
    /\ ~Reachable(lanes, robots[LastID].current_vertex, last.args[2])

\* C9: assignTask(id, d) for a registered agent not on d, d being reachable,
\* returns true whatever the agent's state, and afterwards the agent's
\* destination is d, its path is a path from its current vertex to d, its
\* next vertex is the second element of the path, its state is MOVING, and a
\* task record with destination d exists for id.
C9_AssignTaskAssigns ==
    \A id \in Registered, d \in Vertices :
        LET cv == robots[id].current_vertex
            paths == GetPaths(lanes, cv, d)
        IN  (cv # d /\ Reachable(lanes, cv, d)) =>
                /\ paths # {}
                /\ \A p \in paths :
                       LET res == AssignTaskResult(robots, tasks, id, d,
                                                   paths, p)
                           r == res.robots[id]
                       IN  /\ res.ret = TRUE
                           /\ r.destination = d
                           /\ IsPathFromTo(lanes, r.path, cv, d)
                           /\ r.current_vertex = cv
                           /\ r.next_vertex = r.path[2]
                           /\ r.state = MOVING
                           /\ id \in DOMAIN res.tasks
                           /\ res.tasks[id].destination = d

\* C9 witness: an agent in state WAITING, and another in state CHARGING, each
\* with a destination it can be sent to.
C9_Witness ==
    \E a \in Registered, b \in Registered, d \in Vertices, e \in Vertices :
        /\ robots[a].state = WAITING
        /\ robots[b].state = CHARGING
        /\ d # robots[a].current_vertex
        /\ Reachable(lanes, robots[a].current_vertex, d)
        /\ e # robots[b].current_vertex
        /\ Reachable(lanes, robots[b].current_vertex, e)

\* The task of the single agent has been assigned.
TaskAssigned == Names[1] \in DOMAIN tasks

\* The single agent stands on its destination with its task done.  The tick
\* that brings an agent with a low battery onto a charger leaves it in state
\* CHARGING (update_robots, line 162); that is counted as an arrival too.
Arrived ==
    /\ Names[1] \in DOMAIN tasks
    /\ robots[Names[1]].current_vertex = tasks[Names[1]].destination
    /\ robots[Names[1]].state \in {COMPLETED, CHARGING}

\* C10: single-agent progress: once assignTask(agent, d) has returned true
\* for a reachable d (vertex 0 and paths of three or more vertices included),
\* ticks with dt > 0 and nothing else eventually bring the agent to current
\* vertex d with its task completed.
C10_SingleAgentProgress == TaskAssigned ~> Arrived

\* C11: cancelTask(id) returns false and changes nothing for an unregistered
\* id; for a registered one it returns true, and afterwards the agent is IDLE
\* with empty path, no destination and no next vertex and has no task
\* record, whatever its state was (MOVING anywhere along a lane, WAITING,
\* CHARGING, COMPLETED).
C11_CancelTask ==
    \A id \in IDs :
        LET res == CancelTaskResult(robots, tasks, id)
        IN  IF id \notin Registered
            THEN res.ret = FALSE /\ res.robots = robots /\ res.tasks = tasks
            ELSE /\ res.ret = TRUE
                 /\ res.robots[id].state = IDLE
                 /\ res.robots[id].path = <<>>
                 /\ res.robots[id].destination = None
                 /\ res.robots[id].next_vertex = None
                 /\ id \notin DOMAIN res.tasks
                 /\ DOMAIN res.robots = DOMAIN robots

\* C11 witness: one agent is MOVING part of the way along a lane with its
\* task on record, the other is WAITING.
C11_Witness ==
    \E a \in Registered, b \in Registered :
        /\ robots[a].state = MOVING
        /\ Travelling(a)
        /\ robots[a].position # VertexPos(robots[a].current_vertex)
        /\ robots[a].position # VertexPos(robots[a].next_vertex)
        /\ a \in DOMAIN tasks
        /\ robots[b].state = WAITING

\* C12: addAgent with an ID that is already registered is rejected and leaves
\* the registry as it was: the agent stored under the ID, its state and its
\* task record are the ones from before the call.
C12_DuplicateRejected ==
    [][(last'.op = "add" /\ last'.args[1] \in DOMAIN robots)
           => /\ last'.ret = FALSE
              /\ UNCHANGED <<robots, order>>
              /\ DOMAIN tasks' = DOMAIN tasks]_vars

\* C13: whenever a tick changes an agent's current vertex to a charger while
\* the agent's battery is below 50, the agent is CHARGING at the end of that
\* tick, whether or not the charger is its destination; with battery 50 or
\* more, or on a vertex that is no charger, the tick does not start charging.
C13_ChargingOnArrival ==
    [][last'.op = "tick" =>
         \A id \in DOMAIN robots :
             robots'[id].current_vertex # robots[id].current_vertex =>
                 (robots'[id].state = CHARGING
                      <=> (/\ robots'[id].current_vertex \in Chargers
                           /\ robots'[id].battery < ChargeThreshold))]_vars

\* The single agent is on charge.
OnCharge == Names[1] \in Registered /\ robots[Names[1]].state = CHARGING

\* C14: once an agent is CHARGING, with ticks of dt > 0 and no assignTask or
\* cancelTask, every tick leaves its battery strictly higher than it found
\* it, the agent stays CHARGING while the battery is below 100 and becomes
\* IDLE in the tick in which the battery reaches 100; so it eventually
\* becomes IDLE.
C14_ChargingCompletes ==
    /\ [][OnCharge =>
             /\ robots'[Names[1]].battery > robots[Names[1]].battery
             /\ robots'[Names[1]].battery < BatteryMax
                    => robots'[Names[1]].state = CHARGING
             /\ robots'[Names[1]].battery = BatteryMax
                    => robots'[Names[1]].state = IDLE]_vars
    /\ OnCharge ~> (Names[1] \in Registered /\ robots[Names[1]].state = IDLE)

\* C14 witness: the agent is CHARGING with a battery that has risen above the
\* threshold under which charging starts and is not yet full.
C14_Witness ==
    /\ OnCharge
    /\ robots[Names[1]].battery >= ChargeThreshold
    /\ robots[Names[1]].battery < BatteryMax

\* C15: removeAgent(id) returns false and changes nothing for an
\* unregistered id; for a registered one it returns true, and afterwards
\* neither the registry nor the task records contain id, while every other
\* agent and task record is as before.
C15_RemoveAgent ==
    \A id \in IDs :
        LET res == RemoveRobotResult(robots, order, tasks, id)
        IN  IF id \notin Registered
            THEN /\ res.ret = FALSE
                 /\ res.robots = robots
                 /\ res.order = order
                 /\ res.tasks = tasks
            ELSE /\ res.ret = TRUE
                 /\ id \notin DOMAIN res.robots
                 /\ id \notin DOMAIN res.tasks
                 /\ SameExcept(robots, res.robots, id)
                 /\ SameExcept(tasks, res.tasks, id)
                 /\ \A i \in 1..Len(res.order) : res.order[i] # id

\* C15 witness: two agents are registered and each has a task record.
C15_Witness ==
    /\ Registered = IDs
    /\ DOMAIN tasks = IDs

\* C16: resetAll empties the lane map and the vertex map, from any state;
\* straight afterwards isLaneFree and isVertexFree are true for every lane
\* and vertex, and registerLane by any agent on any lane succeeds.
C16_ResetAll ==
    [][last'.op = "reset" =>
         /\ lane_occupancy' = EmptyMap
         /\ vertex_occupancy' = EmptyMap
         /\ \A f \in Vertices, t \in Vertices :
                /\ IsLaneFree(lane_occupancy', f, t, "")
                /\ IsVertexFree(vertex_occupancy', f, "")
                /\ \A id \in IDs :
                       RegisterLaneUsage(lane_occupancy', vertex_occupancy',
                                         id, f, t).ret = TRUE]_vars

\* C16 witness: resetAll has just run on a table in which both agents held
\* lanes; a dictionary handed out before the reset still shows them.
C16_Witness ==
    /\ last.op = "reset"
    /\ snapshot.kind = "detached"
    /\ \E k \in DOMAIN snapshot.lo, l \in DOMAIN snapshot.lo :
           snapshot.lo[k] # snapshot.lo[l]
    /\ snapshot.vo # EmptyMap
    /\ lane_occupancy = EmptyMap

\* The pairs <<v, d>>: a walk of at most n lanes of g leads from s to v and
\* its lanes' distances sum to d.
RECURSIVE WalksWithin(_, _, _)
WalksWithin(g, s, n) ==
    IF n = 0 THEN {<<s, 0>>}
    ELSE LET W == WalksWithin(g, s, n - 1)
         IN  W \cup UNION {{<<l[2], w[2] + LaneDistance(l)>> :
                               l \in {k \in g : k[1] = w[1]}} : w \in W}

\* The least summed distance of a walk from s to t (t reachable from s).
MinDistance(g, s, t) ==
    LET D == {w[2] : w \in {x \in WalksWithin(g, s, NumVertices) : x[1] = t}}
    IN  CHOOSE d \in D : \A e \in D : d <= e

\* The summed lane distances of the vertex sequence p.
SummedDistance(p) ==
    LET S[i \in 1..Len(p)] ==
            IF i = 1 THEN 0
            ELSE S[i - 1] + LaneDistance(<<p[i - 1], p[i]>>)
    IN  S[Len(p)]

\* C17: shortestPath(start, end) returns for a reachable pair a vertex
\* sequence from start to end along existing directed lanes whose summed
\* distance is the minimum over all paths; shortestPath(v, v) = [v]; and it
\* returns none when end is unreachable from start.
C17_ShortestPath ==
    last.op = "get_path" =>
        LET s == last.args[1]
            t == last.args[2]
            p == last.updates
        IN  IF Reachable(lanes, s, t)
            THEN /\ last.ret = TRUE
                 /\ IsPathFromTo(lanes, p, s, t)
                 /\ SummedDistance(p) = MinDistance(lanes, s, t)
                 /\ s = t => p = <<s>>
            ELSE last.ret = FALSE

\* C17 witness: a path over three lanes has been returned on a graph that
\* also has a longer way between the same two vertices.
C17_Witness ==
    /\ last.op = "get_path"
    /\ last.ret = TRUE
    /\ Len(last.updates) >= 3
    /\ \E q \in SimplePathsFrom(lanes, <<last.args[1]>>, last.args[2]) :
           SummedDistance(q) > SummedDistance(last.updates)

\* C18: within one tick every agent's update is evaluated against the lane
\* occupancy as it was when the tick started: a registration made during the
\* tick for an agent earlier in the registry order is not seen by an agent
\* later in the order.  So an agent that is MOVING towards a next vertex
\* along a lane which no other agent holds when the tick starts is not sent
\* to WAITING by that tick.
C18_TickSnapshot ==
    [][\A id \in DOMAIN robots \cap DOMAIN robots' :
           (/\ robots[id].state = MOVING
            /\ ~Falsy(robots[id].next_vertex)
            /\ ~HeldByOther(lane_occupancy, LaneOf(robots[id]), id))
               => robots'[id].state # WAITING]_vars

\* The entries of dictionary f that map to id.
HeldBy(f, id) == {k \in DOMAIN f : f[k] = id}

\* C19: at every point of a run driven by the dispatcher each agent is the
\* holder of at most one lane entry and of at most one vertex entry, also
\* after it has gone over several lanes of its path.
C19_OneSlotPerAgent ==
    \A id \in IDs :
        /\ Cardinality(HeldBy(lane_occupancy, id)) <= 1
        /\ Cardinality(HeldBy(vertex_occupancy, id)) <= 1

\* C20: a key is in the occupancy table only while genuinely held: after
\* every tick each lane entry (f, t) of agent A belongs to a registered agent
\* A with current vertex f and next vertex t, and each vertex entry v of A to
\* a registered agent A with current vertex v.
C20_NoStaleEntries ==
    last.op = "tick" =>
        /\ \A l \in DOMAIN lane_occupancy :
               /\ lane_occupancy[l] \in Registered
               /\ LaneOf(robots[lane_occupancy[l]]) = l
        /\ \A v \in DOMAIN vertex_occupancy :
               /\ vertex_occupancy[v] \in Registered
               /\ robots[vertex_occupancy[v]].current_vertex = v

\* Every entry of dictionary f is in g with the same holder.
Keeps(f, g) == \A k \in DOMAIN f : k \in DOMAIN g /\ g[k] = f[k]

\* C21: first registrant wins, without preemption, for lanes: a lane held by
\* agent A is never made to be held by another agent, neither by a
\* registerLane call of any agent on any lane nor by a tick; only
\* releaseLane by A or resetAll end A's hold.
C21_LaneNoPreemption ==
    /\ [](\A id \in IDs, f \in Vertices, t \in Vertices :
              Keeps(lane_occupancy,
                    RegisterLaneUsage(lane_occupancy, vertex_occupancy,
                                      id, f, t).lo))
    /\ [][Keeps(lane_occupancy, lane_occupancy')]_vars

\* C21 witness: a lane is held by one agent while the other agent, whose lane
\* it is too, is kept WAITING for it.
C21_Witness ==
    \E l \in DOMAIN lane_occupancy, b \in Registered :
        /\ lane_occupancy[l] # b
        /\ LaneOf(robots[b]) = l
        /\ robots[b].state = WAITING
        /\ lane_occupancy[l] \in Registered

\* C22: no preemption for vertices: if vertex v is held by agent A, a
\* registerLane(B, v, t) of another agent B on an unheld lane leaving v does
\* not change the holder of v; the holder of a vertex changes only after
\* releaseLane or resetAll removed A's hold.
C22_VertexNoPreemption ==
    [][last'.op = "register" => Keeps(vertex_occupancy, vertex_occupancy')]_vars

\* The agent id after its own tick of length dt on the occupancy as it
\* stands.
AfterUpdate(id, dt) == RobotUpdate(robots[id], id, dt, lane_occupancy)[1]

\* Position, current vertex and path of agents r and u are the same.
SamePlace(r, u) ==
    /\ u.position = r.position
    /\ u.current_vertex = r.current_vertex
    /\ u.path = r.path

\* C23: a MOVING agent whose lane (current vertex, next vertex) is held by
\* another agent in the occupancy passed to its tick becomes WAITING in that
\* tick with position, current vertex and path unchanged, and WAITING is
\* entered in no other way; a WAITING agent becomes MOVING in the first tick
\* in which the lane is unheld or its own, and otherwise stays WAITING with
\* position, current vertex and path unchanged.
C23_Waiting ==
    \A id \in Registered, dt \in DTs :
        LET r == robots[id]
            u == AfterUpdate(id, dt)
            held == HeldByOther(lane_occupancy, LaneOf(r), id)
        IN  /\ (r.state = MOVING /\ held)
                   => u.state = WAITING /\ SamePlace(r, u)
            /\ (r.state # WAITING /\ u.state = WAITING)
                   => r.state = MOVING /\ held
            /\ (r.state = WAITING /\ ~held) => u.state = MOVING
            /\ (r.state = WAITING /\ held)
                   => u.state = WAITING /\ SamePlace(r, u)

\* C24: whenever an agent is COMPLETED, after tasks assigned through the
\* dispatcher, its path is empty, its next vertex is null and its current
\* vertex is its destination, for every destination (vertex 0 included) and
\* every length of path.
C24_CompletedAtDestination ==
    \A id \in Registered :
        robots[id].state = COMPLETED =>
            /\ robots[id].path = <<>>
            /\ robots[id].next_vertex = None
            /\ robots[id].current_vertex = robots[id].destination

\* C25: whenever an agent is IDLE, in any state reached through spawn,
\* assignTask, cancelTask, ticks and charging, it has no destination:
\* destination and next vertex are null and the path is empty, also when
\* IDLE is entered at the end of a charge.
C25_IdleHasNoDestination ==
    \A id \in Registered :
        robots[id].state = IDLE =>
            /\ robots[id].destination = None
            /\ robots[id].path = <<>>
            /\ robots[id].next_vertex = None

\* C26: the arrival step of a MOVING agent: in a tick in which the lane is
\* not held by another agent and the distance left to the next vertex is less
\* than speed*dt, the position becomes the next vertex's position, the
\* current vertex becomes that vertex, exactly one element leaves the head of
\* the path, and the next vertex becomes the new head of the path, or null
\* with state COMPLETED if the path is now empty; in a tick in which the
\* distance left is not less than speed*dt, current vertex, path and next
\* vertex are unchanged and the state stays MOVING.
C26_ArrivalStep ==
    \A id \in Registered, dt \in DTs :
        LET r == robots[id]
            u == AfterUpdate(id, dt)
            left == Abs(VertexPos(r.next_vertex) - r.position)
        IN  (/\ r.state = MOVING
             /\ r.next_vertex # None
             /\ ~HeldByOther(lane_occupancy, LaneOf(r), id)) =>
                IF left < Speed * dt
                THEN /\ u.position = VertexPos(r.next_vertex)
                     /\ u.current_vertex = r.next_vertex
                     /\ r.path # <<>>
                     /\ u.path = Tail(r.path)
                     /\ IF u.path # <<>>
                        THEN u.next_vertex = u.path[1] /\ u.state = MOVING
                        ELSE u.next_vertex = None /\ u.state = COMPLETED
                ELSE /\ u.current_vertex = r.current_vertex
                     /\ u.path = r.path
                     /\ u.next_vertex = r.next_vertex
                     /\ u.state = MOVING

\* C27: whenever an agent's path is not empty, its first element is the
\* agent's current vertex, in every state reached by assignTask and ticks.
C27_PathStartsAtCurrent ==
    \A id \in Registered :
        robots[id].path # <<>> =>
            robots[id].path[1] = robots[id].current_vertex

\* C28: the next vertex is derived from the path: it is the second element
\* of the path when the path has at least two elements and null otherwise;
\* so it is never the agent's current vertex.
C28_NextFromPath ==
    \A id \in Registered :
        /\ robots[id].next_vertex =
               IF Len(robots[id].path) >= 2 THEN robots[id].path[2] ELSE None
        /\ robots[id].next_vertex # robots[id].current_vertex

\* C29: a task record exists only while the task is active: it is removed on
\* cancellation and on completion, so after a tick in which the agent's
\* current vertex changes to its destination no task record is left for it.
C29_TaskRecordRemoved ==
    [][last'.op = "tick" =>
         \A id \in DOMAIN robots :
             (/\ robots'[id].current_vertex # robots[id].current_vertex
              /\ robots'[id].current_vertex = robots'[id].destination)
                 => id \notin DOMAIN tasks']_vars

\* The agent id after a whole tick of length dt of the dispatcher.
AfterTick(id, dt) ==
    UpdateRobots(robots, order, tasks, lane_occupancy, vertex_occupancy,
                 dt).robots[id]

\* C30: the battery stays within [0, 100]; a tick with dt > 0 lowers it, not
\* below 0, in IDLE, MOVING, WAITING and COMPLETED, and raises it, not above
\* 100, in CHARGING.
C30_BatteryRange ==
    \A id \in Registered :
        /\ robots[id].battery >= 0
        /\ robots[id].battery <= BatteryMax
        /\ \A dt \in DTs \ {0} :
               LET b == robots[id].battery
                   c == AfterTick(id, dt).battery
               IN  /\ c >= 0
                   /\ c <= BatteryMax
                   /\ IF robots[id].state = CHARGING
                      THEN c > b \/ (b = BatteryMax /\ c = BatteryMax)
                      ELSE c < b \/ (b = 0 /\ c = 0)

\* C30 witness: one agent is WAITING with charge left in its battery while
\* the other is CHARGING.
C30_Witness ==
    \E a \in Registered, b \in Registered :
        /\ robots[a].state = WAITING
        /\ robots[a].battery > 0
        /\ robots[b].state = CHARGING
        /\ robots[b].battery < BatteryMax

\* The vertex sequences of at most n vertices.
RECURSIVE SeqsUpTo(_)
SeqsUpTo(n) ==
    IF n = 0 THEN {<<>>}
    ELSE LET S == SeqsUpTo(n - 1)
         IN  S \cup {Append(p, v) : p \in {q \in S : Len(q) = n - 1},
                                    v \in Vertices}

\* C31: assignPath(destination, path) sets the agent's destination and path;
\* with a path of more than one element the next vertex becomes the path's
\* second element and the state MOVING, with a path of exactly one element
\* the state becomes COMPLETED, with an empty path IDLE.  Position, current
\* vertex and battery are unchanged.
C31_AssignPath ==
    \A id \in Registered, d \in Vertices, p \in SeqsUpTo(MaxPathLen) :
        LET r == robots[id]
            u == SetDestination(r, d, p)
        IN  /\ u.destination = d
            /\ u.path = p
            /\ Len(p) > 1 => u.next_vertex = p[2] /\ u.state = MOVING
            /\ Len(p) = 1 => u.state = COMPLETED
            /\ Len(p) = 0 => u.state = IDLE
            /\ u.position = r.position
            /\ u.current_vertex = r.current_vertex
            /\ u.battery = r.battery

\* C31 witness: the agent is MOVING part of the way along a lane with a
\* battery that is no longer full: a state from which assignPath has to
\* restart the agent, and fields it has to keep.
C31_Witness ==
    \E a \in Registered :
        /\ robots[a].state = MOVING
        /\ robots[a].position # VertexPos(robots[a].current_vertex)
        /\ robots[a].position # VertexPos(robots[a].next_vertex)
        /\ robots[a].battery < BatteryMax
        /\ Len(robots[a].path) > 1

\* v is the vertex that follows u in the vertex sequence p.
Follows(p, u, v) == \E i \in 1..(Len(p) - 1) : p[i] = u /\ p[i + 1] = v

\* C32: between a successful assignTask and the agent's next COMPLETED state,
\* with no assign or cancel in between, the current vertex changes only along
\* lanes of the graph and follows the planned path in order: every change of
\* the current vertex from u to v has a directed lane (u, v), and v is the
\* vertex following u in the planned path, so that no vertex of the planned
\* path is skipped, vertex 0 included.
C32_FollowsPlan ==
    [][last'.op = "tick" =>
         \A id \in DOMAIN robots :
             LET u == robots[id].current_vertex
                 v == robots'[id].current_vertex
             IN  (plan[id] # <<>> /\ v # u) =>
                     /\ <<u, v>> \in lanes
                     /\ Follows(plan[id], u, v)]_vars

\* The agent a is done with the lane: it stands COMPLETED on the lane's end,
\* or its task was cancelled (IDLE), or it is no longer registered.
DoneWith(a, lane) ==
    \/ a \notin Registered
    \/ robots[a].state = IDLE
    \/ robots[a].state = COMPLETED /\ robots[a].current_vertex = lane[2]

\* Some agent is WAITING for a lane whose holder is done with it.
BlockerDone ==
    \E a \in IDs, b \in IDs :
        WaitsFor(b, a) /\ DoneWith(a, LaneOf(robots[b]))

NobodyWaits == \A b \in Registered : robots[b].state # WAITING

\* C33: a blocked agent is eventually released once its blocker is done: if
\* agent B is WAITING for lane (f, t) held by agent A, and A has arrived at t
\* and is COMPLETED, or has had its task cancelled, or has been removed from
\* the registry, then further ticks with dt > 0 eventually take B out of
\* WAITING, back to MOVING.  (Of two agents only one can wait for a lane of
\* an agent that is done, so B is released when nobody waits.)
C33_BlockedReleased == BlockerDone ~> NobodyWaits

\* Agent a comes before agent b in the iteration order of the registry.
Before(a, b) ==
    \E i \in 1..Len(order), j \in 1..Len(order) :
        i < j /\ order[i] = a /\ order[j] = b

\* C34: same-tick contention is resolved by registry order: if two MOVING
\* agents have the same current vertex and the same next vertex and that lane
\* is unheld when a tick (dt > 0) starts, then after the tick the agent that
\* is earlier in the registry's iteration order holds the lane and has
\* advanced, and the later agent is WAITING with its position unchanged.
C34_RegistryOrder ==
    \A a \in Registered, b \in Registered, dt \in DTs \ {0} :
        (/\ Before(a, b)
         /\ robots[a].state = MOVING
         /\ robots[b].state = MOVING
         /\ robots[a].next_vertex # None
         /\ LaneOf(robots[a]) = LaneOf(robots[b])
         /\ LaneOf(robots[a]) \notin DOMAIN lane_occupancy) =>
            LET res == UpdateRobots(robots, order, tasks, lane_occupancy,
                                    vertex_occupancy, dt)
            IN  /\ Holds(res.lo, LaneOf(robots[a]), a)
                /\ \/ res.robots[a].position # robots[a].position
                   \/ res.robots[a].current_vertex # robots[a].current_vertex
                /\ res.robots[b].state = WAITING
                /\ res.robots[b].position = robots[b].position

\* C35: removeAgent, cancelTask and assignTask never modify the occupancy
\* table: the lane map and the vertex map are the same before and after each
\* of these calls, so that lanes and vertices held by a removed or cancelled
\* agent stay held under its ID (until releaseLane or resetAll is called).
C35_OccupancyFrame ==
    [][last'.op \in {"remove", "cancel", "assign"} => UNCHANGED traffic]_vars

\* C35 witness: removeAgent has just removed an agent, and the lane and vertex
\* entries under its ID are still in the table.
C35_Witness ==
    /\ last.op = "remove"
    /\ last.ret = TRUE
    /\ LastID \notin Registered
    /\ HeldBy(lane_occupancy, LastID) # {}
    /\ HeldBy(vertex_occupancy, LastID) # {}

\* C36: for every agent, the state reported for it in the outcome map that a
\* tick returns is the agent's actual state at the end of that tick, also in
\* a tick in which the dispatcher starts charging the agent on arrival.
C36_ReportedState ==
    last.op = "tick" =>
        \A id \in Registered :
            /\ id \in DOMAIN last.updates
            /\ last.updates[id].state = robots[id].state

\* C37: after any sequence of addAgent, removeAgent, assignTask, cancelTask
\* and tick, every task record belongs to a registered agent, and the
\* destination stored in an agent's task record is that agent's current
\* destination.
C37_TaskRecords ==
    /\ DOMAIN tasks \subseteq Registered
    /\ \A id \in DOMAIN tasks \cap Registered :
           tasks[id].destination = robots[id].destination

=============================================================================
